---- MODULE Spec2Model ----
(***************************************************************************)
(* Model of SubtitleDownloader.py: main() reads a link list file, keeps    *)
(* the lines that match LINK_PATTERN under their 1-based line number, and  *)
(* downloads every kept link to E<NN>.<ext> in the output directory.       *)
(*                                                                         *)
(* A string is a sequence of one-character strings.                        *)
(***************************************************************************)
EXTENDS Integers, Sequences, FiniteSets, TLC

VARIABLES
    file,          \* content of the input file, as text mode delivers it
    readable,      \* whether open()/decoding of the input file succeeds
    pc,            \* position of main()
    lines,         \* value returned by read_file: [none, list]
    it,            \* get_links: number of lines the for loop has consumed
    line_number,   \* get_links: line_number
    valid_links,   \* get_links: valid_links, a dict in insertion order
    links,         \* main: links, the dict handed to download_files
    di,            \* download_files: number of keys the for loop has consumed
    call,          \* download_file: its arguments [key, url, filename]
    response,      \* download_file: response [status, content]
    requests_log,  \* the requests.get calls made so far, in order
    returned,      \* number of download_file calls that have returned
    disk,          \* files of the output directory: set of [path, content]
    exception      \* the exception that terminated main(), or "none"

vars == <<file, readable, pc, lines, it, line_number, valid_links, links, di,
          call, response, requests_log, returned, disk, exception>>

----------------------------------------------------------------------------
(* Bounds of the model                                                     *)

\* number of lines of the input file drawn freely from LineSet
MaxLines == 3

\* number of lines drawn freely from LineSet after leading blank lines
MaxLinesAfterBlanks == 2

\* numbers of blank lines a long input file starts with
LeadingBlanks == {4, 98}

----------------------------------------------------------------------------
(* Strings                                                                 *)

NL == "\n"

S_http   == <<"h","t","t","p">>
S_s      == <<"s">>
S_css    == <<":","/","/">>
S_dot    == <<".">>
S_vtt    == <<"v","t","t">>
S_srt    == <<"s","r","t">>

U_srt     == S_http \o S_css \o <<"x","/","a">> \o S_dot \o S_srt
U_vtt     == S_http \o S_s \o S_css \o <<"y","/","b">> \o S_dot \o S_vtt
U_exe     == U_srt \o <<".","e","x","e">>
U_sub     == U_srt \o <<"/","b">>
U_nolink  == <<"n","o","t"," ","a"," ","l","i","n","k">>
U_lead    == <<" ">> \o U_srt
U_empty   == <<>>

\* the lines an input file is made of
LineSet == {U_srt, U_vtt, U_exe, U_sub, U_nolink, U_lead, U_empty}

OutDir == <<"o","u","t">>

\* s[i..] starts with lit
HasAt(s, i, lit) ==
    /\ i + Len(lit) - 1 <= Len(s)
    /\ \A j \in 1..Len(lit) : s[i + j - 1] = lit[j]

\* line[:-1]
DropLastKeepAll(s) == s
DropLast(s) == SubSeq(s, 1, Len(s) - 1)

\* iteration over a text file: the lines, each with its terminator, the last
\* one without if the file does not end with one
FileIter(s) ==
    LET ends == {i \in 1..Len(s) : s[i] = NL \/ i = Len(s)}
        nth(k) == CHOOSE e \in ends : Cardinality({x \in ends : x <= e}) = k
    IN  [k \in 1..Cardinality(ends) |->
            SubSeq(s, IF k = 1 THEN 1 ELSE nth(k - 1) + 1, nth(k))]

\* the for loop of read_file
ReadLines(s) ==
    LET ls == FileIter(s)
    IN  [i \in 1..Len(ls) |-> DropLast(ls[i])]

\* LINK_PATTERN = r"http(s)?://.*\.((vtt)|(srt))" under re.match
\* the positions right after  http(s)?://
AfterScheme(s) ==
    {i \in 1..(Len(s) + 1) :
        \/ HasAt(s, 1, S_http \o S_css) /\ i = 1 + Len(S_http \o S_css)
        \/ HasAt(s, 1, S_http \o S_s \o S_css) /\ i = 1 + Len(S_http \o S_s \o S_css)}

Match(s) ==
    \E a \in AfterScheme(s) : \E j \in a..(Len(s) + 1) :
        /\ \A k \in a..(j - 1) : s[k] # NL
        /\ HasAt(s, j, S_dot \o S_vtt) \/ HasAt(s, j, S_dot \o S_srt)

\* valid_links[k] = v on a dict kept in insertion order
DictSetFront(d, k, v) == <<[key |-> k, url |-> v]>> \o d
DictSet(d, k, v) ==
    IF \E i \in 1..Len(d) : d[i].key = k
    THEN [i \in 1..Len(d) |-> IF d[i].key = k THEN [key |-> k, url |-> v] ELSE d[i]]
    ELSE Append(d, [key |-> k, url |-> v])

\* one turn of the for loop of get_links
GetLinksBodySkipNoCount(vl, ln, line) ==
    IF Match(line)
    THEN [valid_links |-> DictSet(vl, ln + 1, line), line_number |-> ln + 1]
    ELSE [valid_links |-> vl, line_number |-> ln]
GetLinksBody(vl, ln, line) ==
    IF Match(line)
    THEN [valid_links |-> DictSet(vl, ln + 1, line), line_number |-> ln + 1]
    ELSE [valid_links |-> vl, line_number |-> ln + 1]

\* url.split(".")
RECURSIVE Split(_)
Split(s) ==
    LET dots == {i \in 1..Len(s) : s[i] = "."}
    IN  IF dots = {} THEN <<s>>
        ELSE LET p == CHOOSE i \in dots : \A j \in dots : i <= j
             IN  <<SubSeq(s, 1, p - 1)>> \o Split(SubSeq(s, p + 1, Len(s)))

\* url.split(".")[-1]
FileExtension(url) == LET parts == Split(url) IN parts[Len(parts)]

DigitChars == <<"0","1","2","3","4","5","6","7","8","9">>

\* str(n) of a non-negative integer
RECURSIVE Str(_)
Str(n) == IF n < 10 THEN <<DigitChars[n + 1]>>
          ELSE Str(n \div 10) \o <<DigitChars[(n % 10) + 1]>>

\* f"{key:02}"
Format02Trunc(n) ==
    LET s == Str(n % 100) IN IF Len(s) >= 2 THEN s ELSE <<"0">> \o s
Format02(n) ==
    LET s == Str(n)
    IN  IF Len(s) >= 2 THEN s ELSE [i \in 1..(2 - Len(s)) |-> "0"] \o s

\* f"E{key:02}.{file_extension}"
Filename(key, url) == <<"E">> \o Format02(key) \o <<".">> \o FileExtension(url)

\* f"{output_directory_path}\\{output_filename}"
OutputPath(dir, name) == dir \o <<"\\">> \o name

HTTP_OK == 200

\* the status codes a server answers with
StatusCodes == {200, 404}

\* the bodies a server answers with
Bodies == {"body"}

\* response.status_code == 200
StatusOkNot500(status) == status # 500
StatusOk(status) == status = HTTP_OK

\* open(path, "wb") followed by write(content)
WriteFile(d, path, content) ==
    {f \in d : f.path # path} \cup {[path |-> path, content |-> content]}

\* where main() is after an exception no handler catches
UncaughtSwallowed == "download_files"
Uncaught == "crashed"

NoResponse == [status |-> 0, content |-> ""]
NoCall == [key |-> 0, url |-> <<>>, filename |-> <<>>]

----------------------------------------------------------------------------
(* The input files                                                         *)

Tails(max) == UNION {[1..n -> LineSet] : n \in 0..max}

RECURSIVE Terminated(_)
Terminated(ls) ==
    IF ls = <<>> THEN <<>> ELSE ls[1] \o <<NL>> \o Terminated(Tail(ls))

FileOf(pad, tail, nl) ==
    LET text == [i \in 1..pad |-> NL] \o Terminated(tail)
    IN  IF nl \/ tail = <<>> THEN text ELSE SubSeq(text, 1, Len(text) - 1)

InputFiles ==
    {FileOf(0, tail, nl) : tail \in Tails(MaxLines), nl \in BOOLEAN}
    \cup {FileOf(pad, tail, nl) :
            pad \in LeadingBlanks, tail \in Tails(MaxLinesAfterBlanks),
            nl \in BOOLEAN}

----------------------------------------------------------------------------
(* main()                                                                  *)

Init ==
    /\ \/ readable = TRUE  /\ file \in InputFiles
       \/ readable = FALSE /\ file = <<>>
    /\ pc = "read_file"
    /\ lines = [none |-> TRUE, list |-> <<>>]
    /\ it = 0
    /\ line_number = 0
    /\ valid_links = <<>>
    /\ links = <<>>
    /\ di = 0
    /\ call = NoCall
    /\ response = NoResponse
    /\ requests_log = <<>>
    /\ returned = 0
    /\ disk = {}
    /\ exception = "none"

\* read_file returns the lines
ReadFileOk ==
    /\ pc = "read_file"
    /\ readable
    /\ lines' = [none |-> FALSE, list |-> ReadLines(file)]
    /\ pc' = "get_links"
    /\ UNCHANGED <<file, readable, it, line_number, valid_links, links, di,
                   call, response, requests_log, returned, disk, exception>>

\* read_file catches the exception of open() or of decoding, returns None
ReadFileFail ==
    /\ pc = "read_file"
    /\ ~readable
    /\ lines' = [none |-> TRUE, list |-> <<>>]
    /\ pc' = "get_links"
    /\ UNCHANGED <<file, readable, it, line_number, valid_links, links, di,
                   call, response, requests_log, returned, disk, exception>>

\* get_links(None): "for line in lines" raises TypeError
GetLinksNone ==
    /\ pc = "get_links"
    /\ lines.none
    /\ exception' = "TypeError"
    /\ pc' = Uncaught
    /\ UNCHANGED <<file, readable, lines, it, line_number, valid_links, links,
                   di, call, response, requests_log, returned, disk>>

\* one turn of the for loop of get_links
GetLinksStep ==
    /\ pc = "get_links"
    /\ ~lines.none
    /\ it < Len(lines.list)
    /\ LET r == GetLinksBody(valid_links, line_number, lines.list[it + 1])
       IN  /\ valid_links' = r.valid_links
           /\ line_number' = r.line_number
    /\ it' = it + 1
    /\ UNCHANGED <<file, readable, pc, lines, links, di, call, response,
                   requests_log, returned, disk, exception>>

\* the summary of get_links and its return
GetLinksReturn ==
    /\ pc = "get_links"
    /\ ~lines.none
    /\ it = Len(lines.list)
    /\ line_number # 0
    /\ links' = valid_links
    /\ pc' = "download_files"
    /\ UNCHANGED <<file, readable, lines, it, line_number, valid_links, di,
                   call, response, requests_log, returned, disk, exception>>

\* the summary of get_links divides by line_number
GetLinksZeroDivision ==
    /\ pc = "get_links"
    /\ ~lines.none
    /\ it = Len(lines.list)
    /\ line_number = 0
    /\ exception' = "ZeroDivisionError"
    /\ pc' = Uncaught
    /\ UNCHANGED <<file, readable, lines, it, line_number, valid_links, links,
                   di, call, response, requests_log, returned, disk>>

\* download_files takes the next key and calls download_file
DownloadFilesNext ==
    /\ pc = "download_files"
    /\ di < Len(links)
    /\ LET key == links[di + 1].key
           url == links[di + 1].url
       IN  call' = [key |-> key, url |-> url, filename |-> Filename(key, url)]
    /\ di' = di + 1
    /\ pc' = "requests_get"
    /\ UNCHANGED <<file, readable, lines, it, line_number, valid_links, links,
                   response, requests_log, returned, disk, exception>>

\* requests.get(url) returns a response
RequestsGet ==
    /\ pc = "requests_get"
    /\ requests_log' = Append(requests_log, call)
    /\ \E st \in StatusCodes, body \in Bodies :
          response' = [status |-> st, content |-> body]
    /\ pc' = "status_check"
    /\ UNCHANGED <<file, readable, lines, it, line_number, valid_links, links,
                   di, call, returned, disk, exception>>

\* requests.get(url) raises a transport-level exception
RequestsGetRaise ==
    /\ pc = "requests_get"
    /\ requests_log' = Append(requests_log, call)
    /\ exception' = "ConnectionError"
    /\ pc' = Uncaught
    /\ UNCHANGED <<file, readable, lines, it, line_number, valid_links, links,
                   di, call, response, returned, disk>>

\* download_file, status 200: the body is written
DownloadFileWrite ==
    /\ pc = "status_check"
    /\ StatusOk(response.status)
    /\ disk' = WriteFile(disk, OutputPath(OutDir, call.filename), response.content)
    /\ returned' = returned + 1
    /\ pc' = "download_files"
    /\ UNCHANGED <<file, readable, lines, it, line_number, valid_links, links,
                   di, call, response, requests_log, exception>>

\* download_file, status 200: open() or write() raises
DownloadFileWriteRaise ==
    /\ pc = "status_check"
    /\ StatusOk(response.status)
    /\ exception' = "OSError"
    /\ pc' = Uncaught
    /\ UNCHANGED <<file, readable, lines, it, line_number, valid_links, links,
                   di, call, response, requests_log, returned, disk>>

\* download_file, any other status: the failure is printed
DownloadFileFailed ==
    /\ pc = "status_check"
    /\ ~StatusOk(response.status)
    /\ returned' = returned + 1
    /\ pc' = "download_files"
    /\ UNCHANGED <<file, readable, lines, it, line_number, valid_links, links,
                   di, call, response, requests_log, disk, exception>>

\* download_files returns, main() prompts "Finished"
Finished ==
    /\ pc = "download_files"
    /\ di = Len(links)
    /\ pc' = "finished"
    /\ UNCHANGED <<file, readable, lines, it, line_number, valid_links, links,
                   di, call, response, requests_log, returned, disk, exception>>

Next ==
    \/ ReadFileOk
    \/ ReadFileFail
    \/ GetLinksNone
    \/ GetLinksStep
    \/ GetLinksReturn
    \/ GetLinksZeroDivision
    \/ DownloadFilesNext
    \/ RequestsGet
    \/ RequestsGetRaise
    \/ DownloadFileWrite
    \/ DownloadFileWriteRaise
    \/ DownloadFileFailed
    \/ Finished

Spec == Init /\ [][Next]_vars

TypeOK ==
    /\ readable \in BOOLEAN
    /\ pc \in {"read_file", "get_links", "download_files", "requests_get",
               "status_check", "finished", "crashed"}
    /\ it \in Nat /\ line_number \in Nat /\ di \in Nat /\ returned \in Nat
    /\ exception \in {"none", "TypeError", "ZeroDivisionError",
                      "ConnectionError", "OSError"}

----------------------------------------------------------------------------
(* Properties                                                              *)

\* get_links has returned its mapping to main()
GetLinksReturned ==
    \/ pc \in {"download_files", "requests_get", "status_check", "finished"}
    \/ exception \in {"ConnectionError", "OSError"}

Keys(d) == {d[i].key : i \in 1..Len(d)}

Lookup(d, k) == (CHOOSE i \in 1..Len(d) : d[i].key = k)

EndsWith(s, lit) == Len(s) >= Len(lit) /\ HasAt(s, Len(s) - Len(lit) + 1, lit)

\* C1: when get_links returns a mapping for N lines, its keys are within
\* 1..N, k is a key iff the k-th line matched the pattern, the value under k
\* is the k-th line, and the line counter is the number of lines consumed,
\* whether they were accepted or rejected.
C1_KeysTrackLines ==
    /\ ~lines.none => line_number = it
    /\ GetLinksReturned =>
         LET N == Len(lines.list)
         IN  /\ Keys(links) \subseteq 1..N
             /\ \A k \in 1..N :
                  /\ k \in Keys(links) <=> Match(lines.list[k])
                  /\ k \in Keys(links) =>
                        links[Lookup(links, k)].url = lines.list[k]

\* a rejected line came before an accepted one
C1_Witness ==
    /\ GetLinksReturned
    /\ \E j \in 1..Len(lines.list) : \E k \in Keys(links) :
          j < k /\ j \notin Keys(links) /\ lines.list[j] # <<>>

\* the rule of the specification: scheme at the start, extension at the end
SuffixRule(s) ==
    /\ HasAt(s, 1, S_http \o S_css) \/ HasAt(s, 1, S_http \o S_s \o S_css)
    /\ EndsWith(s, S_dot \o S_vtt) \/ EndsWith(s, S_dot \o S_srt)

\* C2: get_links accepts a line iff it starts with http:// or https:// and
\* ends with .vtt or .srt; a line with further characters after the
\* extension is rejected.
C2_AcceptIffSuffixRule ==
    GetLinksReturned =>
        \A k \in 1..Len(lines.list) :
            k \in Keys(links) <=> SuffixRule(lines.list[k])

\* the file ends with a line terminator, or is empty
FileTerminated == file = <<>> \/ file[Len(file)] = NL

NoTerminatorInside(ls) ==
    \A i \in 1..Len(ls) : \A j \in 1..Len(ls[i]) : ls[i][j] # NL

\* C3, as amended: for every readable input file in which every line,
\* the last one included, ends with a line terminator, read_file returns the
\* lines in file order, each without its terminator and otherwise whole.
C3_TerminatedFileKept ==
    (~lines.none /\ FileTerminated) =>
        /\ Terminated(lines.list) = file
        /\ NoTerminatorInside(lines.list)

\* a terminated file of several lines, the last of them not empty, was read
C3_Witness ==
    /\ ~lines.none
    /\ FileTerminated
    /\ Len(lines.list) >= 2
    /\ lines.list[Len(lines.list)] # <<>>

\* C3, as stated: for every readable input file, a final line without
\* terminator included, read_file returns the lines in file order, each
\* without its terminator and otherwise whole.
C3_EveryFileKept ==
    ~lines.none =>
        /\ Terminated(lines.list) = IF FileTerminated THEN file ELSE file \o <<NL>>
        /\ NoTerminatorInside(lines.list)

\* C4: when read_file fails, get_links returns an empty mapping without
\* raising, nothing is fetched and nothing is written.
C4_AbsentLinesTolerated ==
    ~readable =>
        /\ exception = "none"
        /\ links = <<>>
        /\ requests_log = <<>>
        /\ disk = {}

\* no entry is fetched twice
NoRefetch ==
    \A i, j \in 1..Len(requests_log) :
        i # j => requests_log[i].key # requests_log[j].key

\* C5: a response with a status other than 200 leaves the output directory
\* unchanged and raises nothing, download_files goes on with the next entry
\* of the mapping, and no entry is fetched a second time.
C5_Non200Skipped ==
    [][/\ (pc = "status_check" /\ response.status # 200) =>
            /\ disk' = disk
            /\ exception' = "none"
            /\ pc' = "download_files"
            /\ di' = di
            /\ requests_log' = requests_log
       /\ (pc = "download_files" /\ pc' = "requests_get") =>
            /\ call'.key = links[di + 1].key
            /\ di' = di + 1
       /\ NoRefetch']_vars

\* the first entry got a status other than 200 and a later one was fetched
C5_Witness ==
    /\ Len(requests_log) >= 2
    /\ returned >= 1
    /\ disk = {}

\* C6: a transport-level exception of the fetch of entry k is caught nowhere
\* and is the last step of main(): no entry after k is fetched or written,
\* the files written before stay, and the "Finished" prompt is not reached.
C6_TransportFailureEndsBatch ==
    [][exception' = "ConnectionError" =>
        /\ exception = "none"
        /\ pc = "requests_get"
        /\ pc' = "crashed"
        /\ disk' = disk
        /\ requests_log' = Append(requests_log, call)
        /\ \A i \in 1..Len(requests_log) : requests_log[i].key < call.key
        /\ \A f \in disk : \E i \in 1..Len(requests_log) :
              f.path = OutputPath(OutDir, requests_log[i].filename)]_vars

\* the fetch failed after a file was written and before the last entry
C6_Witness ==
    /\ exception = "ConnectionError"
    /\ disk # {}
    /\ di < Len(links)

\* C7: download_files fetches the entries in strictly ascending order of
\* episode number, the order of the lines of the file, one at a time: when a
\* fetch starts every earlier download_file call has returned, and no entry
\* is fetched twice.
C7_AscendingSequential ==
    /\ Len(requests_log) <= Len(links)
    /\ \A i \in 1..Len(requests_log) :
          /\ requests_log[i].key = links[i].key
          /\ requests_log[i].url = lines.list[requests_log[i].key]
    /\ \A i, j \in 1..Len(requests_log) :
          i < j => requests_log[i].key < requests_log[j].key
    /\ returned <= Len(requests_log)
    /\ Len(requests_log) <= returned + 1
    /\ pc = "requests_get" => returned = Len(requests_log)

\* two entries were fetched, with a skipped line between them
C7_Witness ==
    /\ Len(requests_log) = 2
    /\ requests_log[2].key > requests_log[1].key + 1
    /\ returned = 1

Digits == {DigitChars[i] : i \in 1..10}

DigitValue(c) == (CHOOSE i \in 1..10 : DigitChars[i] = c) - 1

RECURSIVE Value(_)
Value(ds) ==
    IF ds = <<>> THEN 0
    ELSE 10 * Value(SubSeq(ds, 1, Len(ds) - 1)) + DigitValue(ds[Len(ds)])

\* f is "E" + NN + "." + ext for episode n and URL u
IsFilenameFor(f, n, u) ==
    \E d \in 3..Len(f) :
        LET nn == SubSeq(f, 2, d - 1)
            ext == SubSeq(f, d + 1, Len(f))
        IN  /\ f[1] = "E"
            /\ f[d] = "."
            /\ \A i \in 1..Len(nn) : nn[i] \in Digits
            /\ Len(nn) >= 2
            /\ Len(nn) > 2 => nn[1] # "0"
            /\ Value(nn) = n
            /\ \A i \in 1..Len(ext) : ext[i] # "."
            /\ EndsWith(u, <<".">> \o ext)

\* C8: download_file is invoked with the filename "E" + NN + "." + ext, NN
\* the episode number in decimal, zero-padded to at least two digits and
\* never truncated, ext the part of the URL after its last "."; episode 5
\* with .srt gives E05.srt, episode 123 with .vtt gives E123.vtt.
C8_FilenameDerivation ==
    /\ \A i \in 1..Len(requests_log) :
          IsFilenameFor(requests_log[i].filename, requests_log[i].key,
                        requests_log[i].url)
    /\ pc \in {"requests_get", "status_check"} =>
          IsFilenameFor(call.filename, call.key, call.url)
    /\ Filename(5, U_srt) = <<"E","0","5",".","s","r","t">>
    /\ Filename(123, U_vtt) = <<"E","1","2","3",".","v","t","t">>

\* episode 100 was fetched
C8_Witness ==
    \E i \in 1..Len(requests_log) :
        /\ requests_log[i].key = 100
        /\ requests_log[i].filename = <<"E","1","0","0",".","v","t","t">>

\* C9: for every list of lines, the empty one included, get_links completes
\* normally and returns a mapping with at most as many entries as lines and
\* keys within 1..number of lines.
C9_GetLinksCompletes ==
    ~lines.none =>
        /\ exception # "ZeroDivisionError"
        /\ Len(valid_links) <= Len(lines.list)
        /\ Keys(valid_links) \subseteq 1..Len(lines.list)

\* C10: every filename derived from a mapping of get_links is E<NN>.vtt or
\* E<NN>.srt, with no further "." or path separator, and different episodes
\* get different filenames.
C10_SubtitleFilenames ==
    /\ \A i \in 1..Len(requests_log) :
          LET f == requests_log[i].filename
          IN  /\ EndsWith(f, S_dot \o S_vtt) \/ EndsWith(f, S_dot \o S_srt)
              /\ Cardinality({j \in 1..Len(f) : f[j] = "."}) = 1
              /\ \A j \in 1..Len(f) : f[j] \notin {"/", "\\"}
    /\ \A i, j \in 1..Len(requests_log) :
          requests_log[i].key # requests_log[j].key =>
              requests_log[i].filename # requests_log[j].filename

====
